---- MODULE Spec2Model ----
(***************************************************************************)
(* esp-microsleep: a microsecond delay for FreeRTOS tasks on top of        *)
(* esp_timer (src/esp_microsleep.c).                                       *)
(*                                                                         *)
(* The model follows esp_microsleep_delay, esp_microsleep_calibrate, the   *)
(* timer ISR handler and the task-local-storage deletion callback line by  *)
(* line.  A task's execution of esp_microsleep_delay is cut where it       *)
(* touches state shared with other tasks or with the timer interrupt: the  *)
(* timer pool, the compensation value, the timer's armed state and the     *)
(* task's notification state.                                              *)
(*                                                                         *)
(* The collaborators are modelled by their documented behaviour:           *)
(*  - esp_timer_create fails with ESP_ERR_NO_MEM when no memory is left;   *)
(*  - esp_timer_start_once fails with ESP_ERR_INVALID_STATE when the timer *)
(*    is already running;                                                  *)
(*  - esp_timer_delete fails with ESP_ERR_INVALID_STATE when the timer is  *)
(*    running, and then deletes nothing;                                   *)
(*  - vTaskNotifyGiveFromISR sets the task's notification state to         *)
(*    pending; xTaskNotifyWait(0, 0, NULL, portMAX_DELAY) returns as soon  *)
(*    as it is pending and resets it;                                      *)
(*  - a task handle is the address of the task's control block, which the  *)
(*    heap hands out again after the task has been deleted.                *)
(***************************************************************************)
EXTENDS Integers, FiniteSets

\* ------------------------------------------------------------------ bounds

\* Number of timers esp_timer_create can hand out before ESP_ERR_NO_MEM.
MaxTimers == 2
\* Number of esp_microsleep_calibrate calls in one behaviour.
MaxCalibrations == 2
\* Number of task deletions in one behaviour.
MaxDeletions == 1
\* Width of the model's uint64_t: arithmetic is modulo 2^WordBits.
WordBits == 14

\* ------------------------------------------------------- program constants

calibration_loops == 10
calibration_usec == 100

\* ----------------------------------------------------------------- domains

\* Task identities (task control block addresses).
Tasks == {1, 2}
Handles == 1..MaxTimers
NULL == 0
Modulus == 2^WordBits

\* The durations application code asks esp_microsleep_delay for.
Requests == {0, 10}
\* Round-trip overhead (microseconds) of arm, interrupt and notify under a
\* stable load: the 15 the header reports for an ESP32S3 at 240 MHz.
Overheads == {15}

ESP_OK == "ESP_OK"
ESP_ERR_NO_MEM == "ESP_ERR_NO_MEM"
ESP_ERR_INVALID_STATE == "ESP_ERR_INVALID_STATE"
\* A frame's ret before the first call, and while the call is running.
NoCall == "none"
Running == "running"

VARIABLES
    alive,      \* alive[t]: a task exists at control block address t
    pc,         \* pc[t]: where task t is in the module's code
    tls,        \* tls[t]: slot CONFIG_ESP_MICROSLEEP_TLS_INDEX of task t
    timers,     \* timers[h]: the esp_timer behind handle h
    pending,    \* pending[t]: notification state of task t is "received"
    esp_microsleep_compensation,
    frame,      \* frame[t]: locals and history of t's current or last delay
    cal,        \* cal[t]: locals and history of t's esp_microsleep_calibrate
    ncal,       \* calibrate calls so far
    ndel,       \* task deletions so far
    last        \* the latest calibrate call that has stored its value

vars == <<alive, pc, tls, timers, pending,
          esp_microsleep_compensation, frame, cal, ncal, ndel, last>>

\* ------------------------------------------------------------------ values

NoTimer == [live |-> FALSE, arg |-> NULL, armed |-> FALSE, timeout |-> 0,
            orphan |-> FALSE]

\* frame of esp_microsleep_delay: us is the parameter, c the compensation
\* value read for the comparison; the rest records what the call did, el
\* being the time from its entry to its return.
NoFrame == [us |-> 0, c |-> 0, created |-> FALSE, arms |-> 0, timeout |-> 0,
            busy |-> -1, waited |-> FALSE, fired |-> FALSE, ret |-> NoCall,
            el |-> 0]

\* frame of esp_microsleep_calibrate: i and compensation are the locals; the
\* rest records the run: the compensation value in effect at its start,
\* whether another call has stored a value since, the longest round, whether
\* every round was woken by the expiry of the timer it armed, and the value
\* the call returned.
NoCal == [active |-> FALSE, i |-> 0, compensation |-> 0, start |-> 0,
          foreign |-> FALSE, maxel |-> 0, clean |-> TRUE, result |-> -1]

\* No calibrate call has stored a value yet.
NoLast == [by |-> NULL, clean |-> FALSE]

Init ==
    /\ alive = [t \in Tasks |-> TRUE]
    /\ pc = [t \in Tasks |-> "idle"]
    /\ tls = [t \in Tasks |-> NULL]
    /\ timers = [h \in Handles |-> NoTimer]
    /\ pending = [t \in Tasks |-> FALSE]
    /\ esp_microsleep_compensation = 0
    /\ frame = [t \in Tasks |-> NoFrame]
    /\ cal = [t \in Tasks |-> NoCal]
    /\ ncal = 0
    /\ ndel = 0
    /\ last = NoLast


\* ------------------------------------------------------------ esp_timer

FreeHandles == {h \in Handles : ~timers[h].live}

FirstFree == CHOOSE h \in FreeHandles : \A g \in FreeHandles : h <= g

\* esp_timer_create(&oneshot_timer_args, &timer), called by task t: the
\* outcomes, each with the error code, the handle and the timers afterwards.
\* The new timer's callback argument is the calling task's handle.  The
\* creation fails when the MaxTimers timers the memory holds are all taken.
esp_timer_create(t) ==
    IF FreeHandles = {}
    THEN {[err |-> ESP_ERR_NO_MEM, handle |-> NULL, tm |-> timers]}
    ELSE {[err |-> ESP_OK, handle |-> FirstFree,
           tm |-> [timers EXCEPT ![FirstFree] =
                      [live |-> TRUE, arg |-> t, armed |-> FALSE,
                       timeout |-> 0, orphan |-> FALSE]]]}

\* esp_timer_start_once(timer, timeout): the error code and the timers
\* afterwards.  A running timer is left as it is.
esp_timer_start_once(h, timeout) ==
    IF timers[h].armed
    THEN [err |-> ESP_ERR_INVALID_STATE, tm |-> timers]
    ELSE [err |-> ESP_OK,
          tm |-> [timers EXCEPT ![h].armed = TRUE, ![h].timeout = timeout]]

\* --------------------------------------------------- esp_microsleep_delay

\* The handle stored in the slot before the creation's result is checked.
AcquireTimer_StoresFirst(t) ==
    IF tls[t] # NULL
    THEN {[err |-> ESP_OK, handle |-> tls[t], tm |-> timers,
           created |-> FALSE]}
    ELSE {[err |-> c.err,
           handle |-> IF c.err = ESP_OK THEN c.handle ELSE MaxTimers,
           tm |-> c.tm, created |-> (c.err = ESP_OK)] :
          c \in esp_timer_create(t)}

\* The timer of the calling task: the handle in its local-storage slot, or a
\* newly created one.  On a creation error the slot is left as it was.
AcquireTimer(t) ==
    IF tls[t] # NULL
    THEN {[err |-> ESP_OK, handle |-> tls[t], tm |-> timers,
           created |-> FALSE]}
    ELSE {[err |-> c.err, handle |-> c.handle, tm |-> c.tm,
           created |-> (c.err = ESP_OK)] : c \in esp_timer_create(t)}

\* The zero check left out.
IsZeroDelay_Dropped(us) == FALSE

\* if (us == 0) { return ESP_OK; }
IsZeroDelay(us) == us = 0

\* if (us <= esp_microsleep_compensation)
UseBusyWait(us, c) == us <= c

\* The busy wait left out.
ets_delay_us_Skipped(us) == 0

\* ets_delay_us(us): the time the busy wait keeps the processor.
ets_delay_us(us) == us

\* us - esp_microsleep_compensation, in uint64_t
TimerTimeout(us, c) == (us - c) % Modulus

\* diff = esp_timer_get_time() - start - calibration_usec, in uint64_t, for a
\* round whose delay call took el microseconds
RoundDiff(el) == (el - calibration_usec) % Modulus

\* Who called the delay that task t is in.
Caller(t) == IF cal[t].active THEN "round" ELSE "app"

\* esp_microsleep_delay returns code to its caller after el microseconds,
\* with f as the call's record.  Application code goes on outside the module;
\* esp_microsleep_calibrate goes on to its loop after the preheating call and
\* adds the round's diff to its sum after a timed call.
Return(t, f, code, el, caller) ==
    /\ frame' = [frame EXCEPT ![t] =
                     [f EXCEPT !.ret = code, !.c = 0, !.timeout = 0,
                               !.el = el]]
    /\ pc' = [pc EXCEPT ![t] = IF caller = "app" THEN "idle" ELSE "cal_loop"]
    /\ cal' = [cal EXCEPT ![t] =
                 IF caller = "app" THEN @
                 ELSE IF caller = "preheat"
                 THEN [NoCal EXCEPT !.active = TRUE,
                                    !.start = esp_microsleep_compensation]
                 ELSE [@ EXCEPT !.compensation =
                                    (@ + RoundDiff(el)) % Modulus,
                                !.i = @ + 1,
                                !.maxel = IF el > @ THEN el ELSE @,
                                !.clean = @ /\ code = ESP_OK /\ f.waited
                                            /\ f.fired]]

\* Entry of esp_microsleep_delay(u) by task t, up to the zero check.
DelayEnter(t, u, caller) ==
    \E r \in AcquireTimer(t) :
        LET f == [NoFrame EXCEPT !.us = u, !.created = r.created]
        IN  /\ tls' = [tls EXCEPT ![t] = r.handle]
            /\ timers' = r.tm
            /\ IF r.err # ESP_OK
               THEN Return(t, f, r.err, 0, caller)
               ELSE IF IsZeroDelay(u)
               THEN Return(t, f, ESP_OK, 0, caller)
               ELSE /\ frame' = [frame EXCEPT ![t] = [f EXCEPT !.ret = Running]]
                    /\ pc' = [pc EXCEPT ![t] = "cmp"]
                    /\ UNCHANGED cal
            /\ UNCHANGED <<alive, pending,
                           esp_microsleep_compensation, last>>

\* Application code of task t calls esp_microsleep_delay(u).
Delay(t) ==
    /\ alive[t]
    /\ pc[t] = "idle"
    /\ \E u \in Requests : DelayEnter(t, u, "app")
    /\ UNCHANGED <<ncal, ndel>>

\* The comparison with the compensation value and the busy-wait path.
DelayCompare(t) ==
    /\ alive[t]
    /\ pc[t] = "cmp"
    /\ LET c == esp_microsleep_compensation
           f == frame[t]
       IN  IF UseBusyWait(f.us, c)
           THEN LET w == ets_delay_us(f.us)
                IN  Return(t, [f EXCEPT !.busy = w], ESP_OK, w, Caller(t))
           ELSE /\ frame' = [frame EXCEPT ![t].c = c]
                /\ pc' = [pc EXCEPT ![t] = "arm"]
                /\ UNCHANGED cal
    /\ UNCHANGED <<alive, tls, timers, pending,
                   esp_microsleep_compensation, ncal, ndel, last>>

\* The values the subtraction may see: the non-volatile global is read
\* without synchronisation, so the build may reuse the value loaded for the
\* comparison or load it again.
SubtractionReads(t) == {frame[t].c, esp_microsleep_compensation}

\* The result of esp_timer_start_once not checked.
ArmFailed_Unchecked(err) == FALSE

\* if (err != ESP_OK) after esp_timer_start_once
ArmFailed(err) == err # ESP_OK

\* esp_timer_start_once(timer, us - esp_microsleep_compensation) and the
\* check of its result.
DelayArm(t) ==
    /\ alive[t]
    /\ pc[t] = "arm"
    /\ \E c2 \in SubtractionReads(t) :
        LET d == TimerTimeout(frame[t].us, c2)
            r == esp_timer_start_once(tls[t], d)
        IN  /\ timers' = r.tm
            /\ IF ArmFailed(r.err)
               THEN Return(t, frame[t], r.err, 0, Caller(t))
               ELSE /\ frame' = [frame EXCEPT
                                   ![t].arms = IF r.err = ESP_OK
                                               THEN @ + 1 ELSE @,
                                   ![t].timeout = d]
                    /\ pc' = [pc EXCEPT ![t] = "wait"]
                    /\ UNCHANGED cal
    /\ UNCHANGED <<alive, tls, pending,
                   esp_microsleep_compensation, ncal, ndel, last>>

\* The clock advance across a scheduled wait: the armed time plus the
\* round trip's overhead when the call's own timer woke the task, less when
\* a notification that was already pending did.
WaitElapsed(t) ==
    IF frame[t].fired
    THEN {(frame[t].timeout + ovh) % Modulus : ovh \in Overheads}
    ELSE Overheads

\* xTaskNotifyWait(0, 0, NULL, portMAX_DELAY) has its notification: the
\* state goes back to "not waiting", then return ESP_OK.
TakeNotification(t) ==
    /\ pending[t]
    /\ pending' = [pending EXCEPT ![t] = FALSE]
    /\ \E el \in WaitElapsed(t) :
          Return(t, [frame[t] EXCEPT !.waited = TRUE], ESP_OK, el, Caller(t))

\* Task t calls xTaskNotifyWait(0, 0, NULL, portMAX_DELAY): with a
\* notification pending the call returns at once, else the task is suspended.
DelayWait(t) ==
    /\ alive[t]
    /\ pc[t] = "wait"
    /\ IF pending[t]
       THEN TakeNotification(t)
       ELSE /\ pc' = [pc EXCEPT ![t] = "blocked"]
            /\ frame' = [frame EXCEPT ![t].waited = TRUE]
            /\ UNCHANGED <<pending, cal>>
    /\ UNCHANGED <<alive, tls, timers, esp_microsleep_compensation, ncal,
                   ndel, last>>

\* The suspended task t is notified and runs again.
DelayWake(t) ==
    /\ alive[t]
    /\ pc[t] = "blocked"
    /\ TakeNotification(t)
    /\ UNCHANGED <<alive, tls, timers, esp_microsleep_compensation, ncal,
                   ndel, last>>

\* ------------------------------------------------ esp_microsleep_isr_handler

\* A wake-up that reaches only a task that is already suspended.
NotifyGive_OnlyIfBlocked(task) ==
    IF alive[task] /\ pc[task] = "blocked"
    THEN [pending EXCEPT ![task] = TRUE] ELSE pending

\* vTaskNotifyGiveFromISR(task, ...): the notification states afterwards.
\* A handle whose task has been deleted points into freed memory: the write
\* reaches the task that has been given the control block since (TaskCreate
\* may or may not have happened), and no state of a live task while the
\* block is free.
NotifyGive(task) ==
    IF alive[task] THEN [pending EXCEPT ![task] = TRUE] ELSE pending

\* The one-shot timer h expires: esp_timer takes it off its list and calls
\* the handler with the timer's argument.
TimerFire(h) ==
    /\ timers[h].live
    /\ timers[h].armed
    /\ LET task == timers[h].arg
       IN  /\ timers' = [timers EXCEPT ![h].armed = FALSE,
                                        ![h].timeout = 0]
           /\ pending' = NotifyGive(task)
           /\ frame' = IF /\ alive[task]
                          /\ tls[task] = h
                          /\ pc[task] \in {"wait", "blocked"}
                       THEN [frame EXCEPT ![task].fired = TRUE] ELSE frame
    /\ UNCHANGED <<alive, pc, tls, esp_microsleep_compensation, cal, ncal,
                   ndel, last>>

\* -------------------------------------- esp_microsleep_timer_delete_callback

\* esp_timer_delete(timer): the timers afterwards.  A running timer is not
\* deleted (ESP_ERR_INVALID_STATE, which the callback drops); it stays armed
\* with the deleted task's handle as its argument.
esp_timer_delete(h) ==
    IF timers[h].armed
    THEN [timers EXCEPT ![h].orphan = TRUE]
    ELSE [timers EXCEPT ![h] = NoTimer]

\* The callback FreeRTOS runs for the slot when the task is deleted.
DeleteCallback(pvHandle) ==
    IF pvHandle # NULL THEN esp_timer_delete(pvHandle) ELSE timers

\* Task t is deleted (by itself outside the module, or by another task at
\* any point): its control block, with the slot and the notification state,
\* is freed.  At most MaxDeletions deletions in a behaviour.
TaskDelete(t) ==
    /\ alive[t]
    /\ ndel < MaxDeletions
    /\ ndel' = ndel + 1
    /\ alive' = [alive EXCEPT ![t] = FALSE]
    /\ timers' = DeleteCallback(tls[t])
    /\ tls' = [tls EXCEPT ![t] = NULL]
    /\ pending' = [pending EXCEPT ![t] = FALSE]
    /\ pc' = [pc EXCEPT ![t] = "idle"]
    /\ frame' = [frame EXCEPT ![t] = NoFrame]
    /\ cal' = [cal EXCEPT ![t] = NoCal]
    /\ last' = IF last.by = t THEN NoLast ELSE last
    /\ UNCHANGED <<esp_microsleep_compensation, ncal>>

\* A new task is created and its control block gets the address t of a
\* deleted one.
TaskCreate(t) ==
    /\ ~alive[t]
    /\ alive' = [alive EXCEPT ![t] = TRUE]
    /\ UNCHANGED <<pc, tls, timers, pending,
                   esp_microsleep_compensation, frame, cal, ncal, ndel, last>>

\* ------------------------------------------------ esp_microsleep_calibrate

\* esp_microsleep_delay(0) "to preheat the timer for this task"; the call's
\* result is dropped.  At most MaxCalibrations calls in a behaviour.
CalibrateBegin(t) ==
    /\ alive[t]
    /\ pc[t] = "idle"
    /\ ncal < MaxCalibrations
    /\ ncal' = ncal + 1
    /\ DelayEnter(t, 0, "preheat")
    /\ UNCHANGED ndel

\* The loop is left.
LoopDone_AfterFirstRound(i) == i >= 1

\* for (int i = 0; i < calibration_loops; i++): the loop is left
LoopDone(i) == ~(i < calibration_loops)

\* start = esp_timer_get_time(); esp_microsleep_delay(calibration_usec);
CalibrateRound(t) ==
    /\ alive[t]
    /\ pc[t] = "cal_loop"
    /\ ~LoopDone(cal[t].i)
    /\ DelayEnter(t, calibration_usec, "round")
    /\ UNCHANGED <<ncal, ndel>>

\* compensation / calibration_loops, in uint64_t
Average(sum) == sum \div calibration_loops

\* esp_microsleep_compensation = compensation / calibration_loops;
CalibrateFinish(t) ==
    /\ alive[t]
    /\ pc[t] = "cal_loop"
    /\ LoopDone(cal[t].i)
    /\ esp_microsleep_compensation' = Average(cal[t].compensation)
    /\ cal' = [u \in Tasks |->
                 IF u # t /\ cal[u].active
                 THEN [cal[u] EXCEPT !.foreign = TRUE] ELSE cal[u]]
    /\ last' = [by |-> t, clean |-> cal[t].clean /\ ~cal[t].foreign]
    /\ pc' = [pc EXCEPT ![t] = "cal_ret"]
    /\ UNCHANGED <<alive, tls, timers, pending, frame, ncal, ndel>>

\* The values return esp_microsleep_compensation may give: the global is
\* written and read again without synchronisation, so the build may return
\* the value it has just stored or load the global again.
ReturnReads(t) == {Average(cal[t].compensation), esp_microsleep_compensation}

\* return esp_microsleep_compensation;
CalibrateReturn(t) ==
    /\ alive[t]
    /\ pc[t] = "cal_ret"
    /\ \E v \in ReturnReads(t) :
          cal' = [cal EXCEPT ![t] = [NoCal EXCEPT !.result = v]]
    /\ pc' = [pc EXCEPT ![t] = "idle"]
    /\ UNCHANGED <<alive, tls, timers, pending, frame,
                   esp_microsleep_compensation, ncal, ndel, last>>

\* ------------------------------------------------------------ specification

Next ==
    \/ \E t \in Tasks : Delay(t)
    \/ \E t \in Tasks : DelayCompare(t)
    \/ \E t \in Tasks : DelayArm(t)
    \/ \E t \in Tasks : DelayWait(t)
    \/ \E t \in Tasks : DelayWake(t)
    \/ \E h \in Handles : TimerFire(h)
    \/ \E t \in Tasks : TaskDelete(t)
    \/ \E t \in Tasks : TaskCreate(t)
    \/ \E t \in Tasks : CalibrateBegin(t)
    \/ \E t \in Tasks : CalibrateRound(t)
    \/ \E t \in Tasks : CalibrateFinish(t)
    \/ \E t \in Tasks : CalibrateReturn(t)

Spec == Init /\ [][Next]_vars

\* The scheduler runs every task that can run, and an armed timer expires.
Fairness ==
    /\ \A t \in Tasks :
          /\ WF_vars(DelayCompare(t))
          /\ WF_vars(DelayArm(t))
          /\ WF_vars(DelayWait(t))
          /\ WF_vars(DelayWake(t))
    /\ \A h \in Handles : WF_vars(TimerFire(h))

FairSpec == Spec /\ Fairness


\* ------------------------------------------------------------------ claims

\* Task t has returned from esp_microsleep_delay (to the application or to
\* esp_microsleep_calibrate).
Returned(t) == frame[t].ret \notin {NoCall, Running}

\* Task t is in esp_microsleep_delay, after the zero check and before the
\* return.
InDelay(t) == pc[t] \in {"cmp", "arm", "wait", "blocked"}

\* Task t takes a step of its own out of the place at in the code.
StepFrom(t, at) == pc[t] = at /\ pc'[t] # at /\ alive'[t]

\* C1, as stated: esp_microsleep_delay(0) returns success without creating a
\* timer, without arming one and without suspending the caller, for every
\* task in every state.
C1_ZeroDelayTouchesNothing ==
    \A t \in Tasks :
        (frame[t].us = 0 /\ frame[t].ret # NoCall) =>
            /\ frame[t].ret = ESP_OK
            /\ ~frame[t].created
            /\ frame[t].arms = 0
            /\ ~frame[t].waited

\* C1, amended: esp_microsleep_delay(0) returns at once and never arms a
\* timer, never busy-waits and never waits for a notification; but it first
\* acquires the calling task's timer: it returns ESP_OK with a timer in the
\* task's slot (created by this call when the slot was empty), or the
\* creation error, with the slot still empty, when the creation fails.
C1_ZeroDelayOnlyAcquires ==
    \A t \in Tasks :
        (frame[t].us = 0 /\ frame[t].ret # NoCall) =>
            /\ ~InDelay(t)
            /\ frame[t].ret \in {ESP_OK, ESP_ERR_NO_MEM}
            /\ frame[t].arms = 0
            /\ frame[t].busy = -1
            /\ ~frame[t].waited
            /\ frame[t].ret = ESP_OK => tls[t] # NULL
            /\ frame[t].ret = ESP_ERR_NO_MEM => tls[t] = NULL /\ ~frame[t].created

\* A task's first call is esp_microsleep_delay(0), and it has created the
\* task's timer.
C1_Witness ==
    \E t \in Tasks :
        /\ frame[t].us = 0
        /\ frame[t].ret = ESP_OK
        /\ frame[t].created
        /\ pc[t] = "idle"

C3_ArmsOnceForRemainder ==
    \A t \in Tasks :
        /\ pc[t] \in {"wait", "blocked"} =>
              /\ frame[t].arms = 1
              /\ frame[t].busy = -1
              /\ frame[t].c < frame[t].us
              /\ frame[t].timeout = frame[t].us - frame[t].c
        /\ (Returned(t) /\ frame[t].us > 0 /\ frame[t].busy = -1
              /\ frame[t].ret # ESP_ERR_NO_MEM) =>
              /\ frame[t].arms = 1
              /\ frame[t].waited

\* C4, as stated: a call returns from the scheduled wait only after the
\* timer it armed has expired.
C4_ReturnAfterOwnExpiry ==
    \A t \in Tasks :
        (Returned(t) /\ frame[t].waited) => frame[t].fired

\* C5: with every armed timer expiring in the end, every call of
\* esp_microsleep_delay by a task that is not deleted meanwhile returns.
C5_NoLostWakeup == \A t \in Tasks : InDelay(t) ~> ~InDelay(t)

\* The timer armed by a call has expired and posted its notification before
\* the task has called xTaskNotifyWait.
C5_Witness ==
    \E t \in Tasks :
        /\ pc[t] = "wait"
        /\ frame[t].fired
        /\ pending[t]
        /\ ~timers[tls[t]].armed

\* C6, as stated: every task has a timer of its own, and a task gets a
\* notification only from the expiry of its own timer.
C6_Isolation ==
    [][/\ \A t \in Tasks :
            (pending'[t] /\ ~pending[t]) =>
                /\ tls[t] # NULL
                /\ timers[tls[t]].armed
                /\ ~timers'[tls[t]].armed
       /\ \A t, u \in Tasks :
            (t # u /\ tls'[t] # NULL) => tls'[t] # tls'[u]]_vars

\* The live timers whose callback argument is task handle t.
BoundTo(t) == {h \in Handles : timers[h].live /\ timers[h].arg = t}

\* C7, as stated: at most one live timer is bound to a task, it is the one
\* in the task's slot, and no two slots hold the same timer.
C7_OneTimerPerTask ==
    \A t \in Tasks :
        /\ Cardinality(BoundTo(t)) <= 1
        /\ tls[t] # NULL => BoundTo(t) = {tls[t]}
        /\ \A u \in Tasks : (u # t /\ tls[t] # NULL) => tls[t] # tls[u]

\* C8, as stated: no timer outlives its task: every live timer is in the
\* slot of a live task, so that the live timers are as many as the tasks
\* that hold one.
C8_NoLeakedTimer ==
    \A h \in Handles :
        timers[h].live => \E t \in Tasks : alive[t] /\ tls[t] = h

\* C9: a call whose timer creation fails returns the creation error and has
\* done nothing else: no busy-wait, no arm, no wait, and the task's slot is
\* still empty, so that the task's next call creates again.
C9_CreationErrorPropagates ==
    \A t \in Tasks :
        frame[t].ret = ESP_ERR_NO_MEM =>
            /\ ~InDelay(t)
            /\ tls[t] = NULL
            /\ ~frame[t].created
            /\ frame[t].busy = -1
            /\ frame[t].arms = 0
            /\ ~frame[t].waited

\* esp_microsleep_delay(10) has returned ESP_ERR_NO_MEM while the
\* compensation value is at least 10.
C9_Witness ==
    \E t \in Tasks :
        /\ frame[t].ret = ESP_ERR_NO_MEM
        /\ frame[t].us > 0
        /\ frame[t].us <= esp_microsleep_compensation

\* C10: when the task's timer is running at the arm, the call returns
\* ESP_ERR_INVALID_STATE and does not wait, and the timers (armed state and
\* timeout) and the notification states are as before; a running timer is
\* never armed again.
C10_ArmErrorPropagates ==
    [][/\ \A t \in Tasks :
            (StepFrom(t, "arm") /\ timers[tls[t]].armed) =>
                /\ frame'[t].ret = ESP_ERR_INVALID_STATE
                /\ pc'[t] \in {"idle", "cal_loop"}
                /\ frame'[t].arms = 0
                /\ ~frame'[t].waited
                /\ timers' = timers
                /\ pending' = pending
       /\ \A h \in Handles :
            (timers[h].armed /\ timers'[h].live) =>
                timers'[h].timeout \in {timers[h].timeout, 0}]_vars

\* A call has returned ESP_ERR_INVALID_STATE, with the task's timer still
\* running.
C10_Witness ==
    \E t \in Tasks :
        /\ frame[t].ret = ESP_ERR_INVALID_STATE
        /\ timers[tls[t]].armed


\* ------------------------------------------- claims on the calibration

\* In this step the esp_microsleep_delay of a timed round of task t returns
\* and the round's diff is added to the sum.
RoundEnds(t) == cal[t].active /\ cal'[t].active /\ cal'[t].i = cal[t].i + 1

\* In this step task t stores the compensation value (line 78).
Stores(t) == pc[t] = "cal_loop" /\ pc'[t] = "cal_ret"

\* C11, as stated: esp_microsleep_calibrate runs exactly calibration_loops
\* timed rounds of esp_microsleep_delay(calibration_usec), takes elapsed - 100
\* as each round's overhead, stores the sum of the overheads divided by 10
\* (rounded down) and returns the value it stored.
C11_StoresAverageOverhead ==
    [][\A t \in Tasks :
          /\ RoundEnds(t) =>
                /\ frame'[t].us = calibration_usec
                /\ cal'[t].compensation =
                      cal[t].compensation + (frame'[t].el - calibration_usec)
          /\ Stores(t) =>
                /\ cal[t].i = calibration_loops
                /\ esp_microsleep_compensation' =
                      cal[t].compensation \div calibration_loops
          /\ StepFrom(t, "cal_ret") =>
                cal'[t].result = cal[t].compensation \div calibration_loops]_vars

\* C12, as stated: under a constant overhead (every round of both runs woken
\* by the expiry of the timer it armed, no other calibrate call storing a
\* value meanwhile), a calibrate call stores the value the task's previous
\* calibrate call stored.
C12_CalibrationIdempotent ==
    [][\A t \in Tasks :
          (/\ Stores(t)
           /\ last.by = t
           /\ last.clean
           /\ cal[t].clean
           /\ ~cal[t].foreign) =>
              esp_microsleep_compensation' = esp_microsleep_compensation]_vars

\* The compensation value changes only in the store of a calibrate call,
\* which comes after the call's last round.
OnlyCalibrateWrites ==
    esp_microsleep_compensation' # esp_microsleep_compensation =>
        \E t \in Tasks :
            /\ Stores(t)
            /\ cal[t].i = calibration_loops

\* In this step a timed round of task t reads the compensation value.
RoundReads(t) ==
    cal[t].active /\ (StepFrom(t, "cmp") \/ StepFrom(t, "arm"))

\* C13, as stated: the compensation value is written only by
\* esp_microsleep_calibrate, once per call and after the last round, and the
\* rounds of a run all see the value in effect when the run started.
C13_RoundsSeeStartValue ==
    [][/\ OnlyCalibrateWrites
       /\ \A t \in Tasks :
             RoundReads(t) => esp_microsleep_compensation = cal[t].start]_vars

\* C13, amended: the compensation value is written only by
\* esp_microsleep_calibrate, once per call and after the last round; the
\* rounds of a run all see the value in effect when the run started, unless
\* a calibrate call of another task stores its value during the run.
C13_OnlyCalibrateWrites ==
    [][/\ OnlyCalibrateWrites
       /\ \A t \in Tasks :
             (RoundReads(t) /\ ~cal[t].foreign) =>
                 esp_microsleep_compensation = cal[t].start]_vars

\* A calibrate call has stored a value other than the one in effect at its
\* start, with no other call storing meanwhile.
C13_Witness ==
    \E t \in Tasks :
        /\ pc[t] = "cal_ret"
        /\ ~cal[t].foreign
        /\ cal[t].i = calibration_loops
        /\ esp_microsleep_compensation # cal[t].start

\* C14, as stated: every timed round that esp_microsleep_delay completes goes
\* through the scheduled wait: it arms the timer once and waits for the
\* notification; it does not busy-wait.
C14_RoundsTakeScheduledWait ==
    \A t \in Tasks :
        (/\ cal[t].active
         /\ cal[t].i >= 1
         /\ frame[t].us = calibration_usec
         /\ frame[t].ret = ESP_OK) =>
            /\ frame[t].busy = -1
            /\ frame[t].arms = 1
            /\ frame[t].waited

\* C15, as stated: after the preheating call the calling task has its timer,
\* and no timed round creates one.
C15_TimerCreatedBeforeTiming ==
    \A t \in Tasks :
        cal[t].active =>
            /\ tls[t] # NULL
            /\ frame[t].us = calibration_usec => ~frame[t].created

\* The running timers whose callback argument is task handle t.
Outstanding(t) == {h \in BoundTo(t) : timers[h].armed}

\* C16, as stated: at most one timer is running for a task, and only while
\* the task is in esp_microsleep_delay between the arm and the return:
\* outside, no timer is running for it and no notification is pending.
C16_ArmedOnlyInsideDelay ==
    \A t \in Tasks :
        alive[t] =>
            /\ Cardinality(Outstanding(t)) <= 1
            /\ pc[t] \notin {"wait", "blocked"} =>
                  /\ Outstanding(t) = {}
                  /\ ~pending[t]

\* In this step timer h expires and the handler runs.
Expires(h) == timers[h].armed /\ ~timers'[h].armed /\ timers'[h].live

\* C17, as stated: an invocation of the handler posts one notification to
\* the task the timer is bound to, and changes nothing else: no timer
\* handle, slot, compensation value or state of another task; a pending
\* notification is consumed by the task's next wait, which returns.
C17_BridgePostsOneNotification ==
    [][/\ \A h \in Handles :
             Expires(h) =>
                 /\ ~timers[h].orphan
                 /\ pending' = [pending EXCEPT ![timers[h].arg] = TRUE]
                 /\ timers'[h].arg = timers[h].arg
                 /\ \A g \in Handles \ {h} : timers'[g] = timers[g]
                 /\ tls' = tls
                 /\ pc' = pc
                 /\ alive' = alive
                 /\ cal' = cal
                 /\ esp_microsleep_compensation' = esp_microsleep_compensation
       /\ \A t \in Tasks :
             (StepFrom(t, "wait") /\ pending[t]) =>
                 /\ ~pending'[t]
                 /\ pc'[t] \in {"idle", "cal_loop"}]_vars

\* C18, as stated: the duration a call arms its timer with is us - c for the
\* one compensation value c the call compared us with, so at least 1 and at
\* most us: the subtraction does not wrap around.
C18_ArmedWithinRequest ==
    \A t \in Tasks :
        pc[t] \in {"wait", "blocked"} =>
            /\ frame[t].timeout >= 1
            /\ frame[t].timeout <= frame[t].us
            /\ frame[t].timeout + frame[t].c = frame[t].us

\* C19, as stated: the value a calibrate call stores is at most the longest
\* time one of its rounds took.
C19_StoredIsTrueOverhead ==
    [][\A t \in Tasks :
          Stores(t) => esp_microsleep_compensation' <= cal[t].maxel]_vars

\* C20, as stated: no timer whose task has been deleted is running, so that
\* the handler is not called with the handle of a deleted task.
C20_NoTimerOfDeletedTaskRuns ==
    \A h \in Handles :
        (timers[h].live /\ timers[h].orphan) => ~timers[h].armed

====
